---- MODULE Spec2Model ----
(***************************************************************************)
(* Container lifecycle manager of runsc (runsc/container/container.go).    *)
(*                                                                         *)
(* The state is the metadata directory tree under the root directory, the  *)
(* sandbox subprocesses on the host, the optional pid file, and a small    *)
(* number of callers, each holding one *Container value and a position in  *)
(* the verb it is executing.  Every filesystem call, sandbox call and hook *)
(* run of a verb is one step, so that a crash or another caller can fall   *)
(* between two of them.                                                    *)
(***************************************************************************)
EXTENDS Integers, Sequences, FiniteSets, TLC

(***************************************************************************)
(* Bounds.                                                                 *)
(***************************************************************************)
\* number of callers (each holds one *Container variable)
NumProcs == 2
\* number of sandbox subprocesses that can be launched in one behaviour
MaxSandboxes == 2
MaxIdLen == 2

Procs == 1..NumProcs
Pids == 1..MaxSandboxes

(***************************************************************************)
(* Inputs.                                                                 *)
(***************************************************************************)
\* ASCII code of a character
Ord(ch) ==
    CASE ch = "!" -> 33
      [] ch = "*" -> 42
      [] ch = "+" -> 43
      [] ch = "," -> 44
      [] ch = "-" -> 45
      [] ch = "." -> 46
      [] ch = "/" -> 47
      [] ch = "0" -> 48
      [] ch = "9" -> 57
      [] ch = "A" -> 65
      [] ch = "Z" -> 90
      [] ch = "_" -> 95
      [] ch = "a" -> 97
      [] ch = "z" -> 122

\* the ids callers pass: a plain one, one with a '!', the empty one
Ids == {<<"a">>, <<"a", "!">>, <<>>}

\* the ids the id check is tried on: every string of at most MaxIdLen of
\* these characters
IdChars == {"a", "0", "_", "+", ",", "-", ".", "/", "*", "!"}
IdInputs == UNION {[1..n -> IdChars] : n \in 0..MaxIdLen}

\* the OCI specs callers pass: without hooks, with hooks, failing validation
Specs == {"plain", "hooks", "invalid"}
BundleDir == "bundle"
ConsoleSocket == "sock"
RootDir == "root"

Creating == "Creating"
Created == "Created"
Running == "Running"
Stopped == "Stopped"

(***************************************************************************)
(* Values.                                                                 *)
(***************************************************************************)
\* a nil *sandbox.Sandbox
Nil == [ID |-> <<>>, Pid |-> 0]

\* a nil *Container
NoC == [present |-> FALSE, ID |-> <<>>, Spec |-> "plain", BundleDir |-> "",
        Root |-> <<>>, ConsoleSocket |-> "", Status |-> Creating,
        Sandbox |-> Nil]

\* the JSON document of a container: every field but ConsoleSocket (json:"-")
NoRec == [ID |-> <<>>, Spec |-> "plain", BundleDir |-> "", Root |-> <<>>,
          Status |-> Creating, Sandbox |-> Nil]

\* <root>/<id>: absent
NoDir == [dir |-> FALSE, meta |-> "none", rec |-> NoRec]

\* the frame of a verb: its arguments, its locals and, once it has returned,
\* its error.  st0 is the status of the receiver when the verb was entered,
\* again tells that Destroy is called on the receiver a successful Destroy
\* has just left,
\* outer is "Run" while Run executes the verb, trail lists what the verbs
\* Run has called returned
NoFrame == [verb |-> "none", id |-> <<>>, spec |-> "plain", pidFile |-> FALSE,
            err |-> "nil", destroyed |-> FALSE, rm |-> {},
            hooks |-> {}, asked |-> {}, made |-> NoC, st0 |-> Creating,
            again |-> FALSE, outer |-> "none", trail |-> <<>>,
            result |-> "pending"]

VARIABLES
    fs,       \* fs[id]: the directory <root>/<id> and its meta.json
    pidfile,  \* content of the pid file: a sandbox pid, 0 when absent
    sb,       \* sb[pid]: the sandbox subprocess with this pid
    c,        \* c[p]: the *Container caller p holds
    pc,       \* pc[p]: position of caller p
    loc,      \* loc[p]: frame of the verb p executes
    created,  \* the caller whose successful Create was the last verb to
              \* return, 0 when the last verb was another one
    gone,     \* the caller that has called no verb since its Destroy
              \* returned success, 0 when there is none
    obs       \* obs[pid]: last status Load returned for the container of
              \* sandbox pid

vars == <<fs, pidfile, sb, c, pc, loc, created, gone, obs>>

(***************************************************************************)
(* Pure functions.                                                         *)
(***************************************************************************)
\* \w of the regular expression: [0-9A-Za-z_]
IsWord(ch) ==
    \/ Ord("0") <= Ord(ch) /\ Ord(ch) <= Ord("9")
    \/ Ord("A") <= Ord(ch) /\ Ord(ch) <= Ord("Z")
    \/ Ord("a") <= Ord(ch) /\ Ord(ch) <= Ord("z")
    \/ ch = "_"

\* one character of the class [\w+-\.]: \w, or the range from '+' to '.'
idRegexClass(ch) ==
    \/ IsWord(ch)
    \/ Ord("+") <= Ord(ch) /\ Ord(ch) <= Ord(".")

\* validateID: the id matches ^[\w+-\.]+$
validateID(id) ==
    /\ Len(id) >= 1
    /\ \A i \in 1..Len(id) : idRegexClass(id[i])

\* specutils.ValidateSpec
ValidateSpec(spec) == spec # "invalid"

\* c.Spec.Hooks != nil
HasHooks(spec) == spec = "hooks"

\* filepath.Join(conf.RootDir, id)
containerRoot(id) == <<RootDir>> \o id

\* the id whose directory a path <root>/<id> names
DirOf(root) == Tail(root)

\* an existence check that looks for meta.json instead of the directory
exists_meta(id) == id \in DOMAIN fs /\ fs[id].dir /\ fs[id].meta # "none"

\* exists(f) for the container directory, and for its meta.json; fs lists
\* the directories there can be, any other path does not exist
exists(id) == id \in DOMAIN fs /\ fs[id].dir
existsMeta(id) == exists(id) /\ fs[id].meta # "none"

\* Marshal that leaves the sandbox out of the document
Marshal_noSandbox(cont) ==
    [ID |-> cont.ID, Spec |-> cont.Spec, BundleDir |-> cont.BundleDir,
     Root |-> cont.Root, Status |-> cont.Status, Sandbox |-> Nil]

\* json.Marshal(c)
Marshal(cont) ==
    [ID |-> cont.ID, Spec |-> cont.Spec, BundleDir |-> cont.BundleDir,
     Root |-> cont.Root, Status |-> cont.Status, Sandbox |-> cont.Sandbox]

\* Unmarshal that does not find the bundleDir key
Unmarshal_noBundle(rec) ==
    [present |-> TRUE, ID |-> rec.ID, Spec |-> rec.Spec,
     BundleDir |-> "", Root |-> rec.Root, ConsoleSocket |-> "",
     Status |-> rec.Status, Sandbox |-> rec.Sandbox]

\* json.Unmarshal(metaBytes, &c) into a zero Container
Unmarshal(rec) ==
    [present |-> TRUE, ID |-> rec.ID, Spec |-> rec.Spec,
     BundleDir |-> rec.BundleDir, Root |-> rec.Root, ConsoleSocket |-> "",
     Status |-> rec.Status, Sandbox |-> rec.Sandbox]

\* Sandbox.IsRunning: the sandbox subprocess is alive
IsRunning(s) == s # Nil /\ sb[s.Pid] \in {"created", "running"}

\* Pid that knows no Created container
Pid_runningOnly(cont) ==
    IF cont.Status # Running THEN -1
    ELSE cont.Sandbox.Pid

\* Container.Pid
Pid(cont) ==
    IF cont.Status # Running /\ cont.Status # Created THEN -1
    ELSE cont.Sandbox.Pid

\* the pid the next launched sandbox gets
NextPid == CHOOSE n \in 1..(MaxSandboxes + 1) :
              /\ \A m \in 1..(n - 1) : sb[m] # "unused"
              /\ n \in Pids => sb[n] = "unused"

(***************************************************************************)
(* Initial state: an empty root directory, no sandbox, idle callers.       *)
(***************************************************************************)
Init ==
    /\ fs = [id \in Ids |-> NoDir]
    /\ pidfile = 0
    /\ sb = [n \in Pids |-> "unused"]
    /\ c = [p \in Procs |-> NoC]
    /\ pc = [p \in Procs |-> "idle"]
    /\ loc = [p \in Procs |-> NoFrame]
    /\ created = 0
    /\ gone = 0
    /\ obs = [n \in Pids |-> "none"]

(***************************************************************************)
(* Calls and returns.                                                      *)
(***************************************************************************)
\* the host serialises the verbs: one caller, one verb at a time
Callers == {1}

\* the Container of id a successful Create has just returned: no other
\* verb has returned since
JustCreated(id) ==
    IF created # 0 /\ c[created].ID = id THEN c[created] ELSE NoC

\* caller p enters verb v
Enter(p, v, id, spec, pidFile) ==
    /\ pc[p] = "idle"
    /\ pc' = [pc EXCEPT ![p] = v]
    /\ loc' = [loc EXCEPT ![p] = [NoFrame EXCEPT !.verb = v, !.id = id,
                                   !.spec = spec, !.pidFile = pidFile,
                                   !.made = JustCreated(id),
                                   !.st0 = c[p].Status,
                                   !.again = (v = "Destroy" /\ gone = p)]]
    /\ gone' = 0
    /\ UNCHANGED <<fs, pidfile, sb, c, created, obs>>

\* a caller invokes a package function (Create, Load) or a method of the
\* Container it holds (Start, Destroy, Signal)
Invoke(p) ==
    \/ \E id \in Ids, spec \in Specs, pidFile \in BOOLEAN :
           Enter(p, "Create", id, spec, pidFile)
    \/ \E id \in Ids : Enter(p, "Load", id, "plain", FALSE)
    \/ \E v \in {"Start", "Destroy", "Signal", "Wait"} :
           /\ c[p].present
           /\ Enter(p, v, c[p].ID, c[p].Spec, FALSE)

\* a caller invokes Run
InvokeRun(p) ==
    \E id \in Ids, spec \in Specs, pidFile \in BOOLEAN :
        Enter(p, "Run", id, spec, pidFile)

\* Run that waits whatever Start returned
RunNext_ignoreStart(verb, err) ==
    IF verb = "Create" THEN IF err # "nil" THEN "return" ELSE "Start"
    ELSE IF verb = "Start" THEN "Wait"
    ELSE "return"

\* what Run does when the verb it called returns err: it returns the error
\* of Create or of Start, calls Start after Create and Wait after Start,
\* and returns what Wait returned
RunNext(verb, err) ==
    IF err # "nil" THEN "return"
    ELSE IF verb = "Create" THEN "Start"
    ELSE IF verb = "Start" THEN "Wait"
    ELSE "return"

\* the verb of p, with frame f, returns err: to the caller or, inside Run,
\* to Run, which goes on or returns
Return(p, err, f) ==
    IF f.outer = "Run" THEN
        LET nxt == RunNext(f.verb, err)
            tr == Append(f.trail, <<f.verb, err>>)
        IN  IF nxt = "return"
            THEN /\ pc' = [pc EXCEPT ![p] = "return"]
                 /\ loc' = [loc EXCEPT ![p] = [f EXCEPT !.verb = "Run",
                                                        !.trail = tr,
                                                        !.result = err]]
            ELSE /\ pc' = [pc EXCEPT ![p] = nxt]
                 /\ loc' = [loc EXCEPT ![p] = [f EXCEPT !.verb = nxt,
                                                        !.trail = tr]]
    ELSE
        /\ pc' = [pc EXCEPT ![p] = "return"]
        /\ loc' = [loc EXCEPT ![p] = [f EXCEPT !.result = err]]

\* the caller has the result: the frame is popped, and with the frame of
\* Run its local Container
Exit(p) ==
    /\ pc[p] = "return"
    /\ pc' = [pc EXCEPT ![p] = "idle"]
    /\ loc' = [loc EXCEPT ![p] = NoFrame]
    /\ c' = IF loc[p].verb = "Run" THEN [c EXCEPT ![p] = NoC] ELSE c
    /\ created' = IF loc[p].verb = "Create" /\ loc[p].result = "nil"
                  THEN p ELSE 0
    /\ gone' = IF loc[p].verb = "Destroy" /\ loc[p].result = "nil"
               THEN p ELSE 0
    /\ UNCHANGED <<fs, pidfile, sb, obs>>

(***************************************************************************)
(* Run                                                                     *)
(***************************************************************************)
\* c, err := Create(id, spec, conf, bundleDir, consoleSocket, pidFile)
Run(p) ==
    /\ pc[p] = "Run"
    /\ pc' = [pc EXCEPT ![p] = "Create"]
    /\ loc' = [loc EXCEPT ![p].verb = "Create", ![p].outer = "Run"]
    /\ UNCHANGED <<fs, pidfile, sb, c, created, gone, obs>>

(***************************************************************************)
(* Load                                                                    *)
(***************************************************************************)
\* the error Load(rootDir, id) returns
LoadErr(id) ==
    IF ~validateID(id) THEN "InvalidID"
    ELSE IF ~exists(id) \/ ~existsMeta(id) THEN "NotFound"
    ELSE IF fs[id].meta = "partial" THEN "Corrupt"
    ELSE "nil"

\* reconcile with the liveness test inverted
reconcile_inverted(cont, alive) ==
    IF cont.Status = Running \/ cont.Status = Created
    THEN IF ~alive THEN cont
         ELSE [cont EXCEPT !.Status = Stopped, !.Sandbox = Nil]
    ELSE cont

\* reconcile that forgets the Created status
reconcile_runningOnly(cont, alive) ==
    IF cont.Status = Running
    THEN IF alive THEN cont
         ELSE [cont EXCEPT !.Status = Stopped, !.Sandbox = Nil]
    ELSE cont

\* the status check of Load: a Running or Created container whose sandbox
\* process is gone is Stopped and has no sandbox
reconcile(cont, alive) ==
    IF cont.Status = Running \/ cont.Status = Created
    THEN IF alive THEN cont
         ELSE [cont EXCEPT !.Status = Stopped, !.Sandbox = Nil]
    ELSE cont

Load(p) ==
    /\ pc[p] = "Load"
    /\ LET id == loc[p].id
           read == Unmarshal(fs[id].rec)
           out == reconcile(read, IsRunning(read.Sandbox))
       IN  IF LoadErr(id) # "nil" THEN
               /\ Return(p, LoadErr(id), loc[p])
               /\ c' = [c EXCEPT ![p] = NoC]
               /\ UNCHANGED obs
           ELSE
               /\ Return(p, "nil", loc[p])
               /\ c' = [c EXCEPT ![p] = out]
               /\ obs' = IF read.Sandbox = Nil THEN obs
                         ELSE [obs EXCEPT ![read.Sandbox.Pid] = out.Status]
    /\ UNCHANGED <<fs, pidfile, sb, created, gone>>

(***************************************************************************)
(* Container.Destroy, also called by Create and Start on their failures.   *)
(***************************************************************************)
\* Create or Start, with frame f, calls c.Destroy() and will return err
CallDestroy(p, err, f) ==
    /\ pc' = [pc EXCEPT ![p] = "Destroy"]
    /\ loc' = [loc EXCEPT ![p] = [f EXCEPT !.err = err]]

\* Destroy returns derr to the verb that called it; Create and Start drop
\* derr and return their own error, Create returning a nil Container
DestroyReturn(p, derr, cont, f) ==
    /\ Return(p, IF f.verb = "Destroy" THEN derr ELSE f.err, f)
    /\ c' = [c EXCEPT ![p] = IF f.verb = "Create" THEN NoC ELSE cont]

\* c.Sandbox.Stop(c.ID): returns nil or an error; a nil receiver has no
\* sandbox to fail
Destroy(p) ==
    /\ pc[p] = "Destroy"
    /\ LET f == [loc[p] EXCEPT !.asked = @ \cup {"stop"}, !.destroyed = TRUE]
       IN  \/ /\ pc' = [pc EXCEPT ![p] = "Destroy_rm1"]
              /\ loc' = [loc EXCEPT ![p] = f]
              /\ UNCHANGED c
           \/ /\ c[p].Sandbox # Nil
              /\ DestroyReturn(p, "Stop", c[p], f)
    /\ UNCHANGED <<fs, pidfile, sb, created, gone, obs>>

\* a removal that deletes meta.json and leaves the directory
RemoveAll_fileOnly(root, how) ==
    LET id == DirOf(root)
    IN  CASE how = "ok" -> [fs EXCEPT ![id].meta = "none", ![id].rec = NoRec]
          [] how = "kept" -> fs
          [] how = "partly" -> [fs EXCEPT ![id].meta = "none", ![id].rec = NoRec]

\* os.RemoveAll(path) removes everything, or fails having removed nothing,
\* or fails having removed the file but not the directory
RemoveAll(root, how) ==
    LET id == DirOf(root)
    IN  CASE how = "ok" -> [fs EXCEPT ![id] = NoDir]
          [] how = "kept" -> fs
          [] how = "partly" -> [fs EXCEPT ![id].meta = "none", ![id].rec = NoRec]

RemoveOutcomes(root) ==
    IF fs[DirOf(root)].dir THEN {"ok", "kept", "partly"} ELSE {"ok"}

\* a first removal that makes Destroy fail when the directory is missing
DestroyRm1_failsIfMissing(p) ==
    /\ pc[p] = "Destroy_rm1"
    /\ IF fs[DirOf(c[p].Root)].dir
       THEN /\ \E how \in RemoveOutcomes(c[p].Root) :
                   /\ fs' = RemoveAll(c[p].Root, how)
                   /\ loc' = [loc EXCEPT ![p].rm = @ \cup {how}]
            /\ pc' = [pc EXCEPT ![p] = "Destroy_hooks"]
            /\ UNCHANGED c
       ELSE /\ DestroyReturn(p, "Remove", c[p], loc[p])
            /\ UNCHANGED fs
    /\ UNCHANGED <<pidfile, sb, created, gone, obs>>

\* os.RemoveAll(c.Root), first pass
DestroyRm1(p) ==
    /\ pc[p] = "Destroy_rm1"
    /\ \E how \in RemoveOutcomes(c[p].Root) :
           /\ fs' = RemoveAll(c[p].Root, how)
           /\ loc' = [loc EXCEPT ![p].rm = @ \cup {how}]
    /\ pc' = [pc EXCEPT ![p] = "Destroy_hooks"]
    /\ UNCHANGED <<pidfile, sb, c, created, gone, obs>>

\* executeHooksBestEffort(c.Spec.Hooks.Poststop, c.State())
DestroyHooks(p) ==
    /\ pc[p] = "Destroy_hooks"
    /\ IF HasHooks(c[p].Spec)
          /\ (c[p].Status = Created \/ c[p].Status = Running)
       THEN \E ran \in {{"poststop"}, {"poststop", "poststop_failed"}} :
                loc' = [loc EXCEPT ![p].hooks = @ \cup ran]
       ELSE UNCHANGED loc
    /\ pc' = [pc EXCEPT ![p] = "Destroy_rm2"]
    /\ UNCHANGED <<fs, pidfile, sb, c, created, gone, obs>>

\* os.RemoveAll(c.Root), second pass
DestroyRm2(p) ==
    /\ pc[p] = "Destroy_rm2"
    /\ \E how \in RemoveOutcomes(c[p].Root) :
           /\ fs' = RemoveAll(c[p].Root, how)
           /\ loc' = [loc EXCEPT ![p].rm = @ \cup {how}]
    /\ pc' = [pc EXCEPT ![p] = "Destroy_sandbox"]
    /\ UNCHANGED <<pidfile, sb, c, created, gone, obs>>

\* Sandbox.Destroy: the subprocess is terminated, or the call fails
SandboxDestroy(s, ok) ==
    IF ok /\ s # Nil THEN [sb EXCEPT ![s.Pid] = "dead"] ELSE sb

\* stopped that keeps the sandbox reference
stopped_keepSandbox(cont) == [cont EXCEPT !.Status = Stopped]

\* stopped that leaves the status as it was
stopped_keepStatus(cont) == [cont EXCEPT !.Sandbox = Nil]

\* c.Sandbox = nil; c.Status = Stopped
stopped(cont) == [cont EXCEPT !.Sandbox = Nil, !.Status = Stopped]

\* a Destroy that returns the error of Sandbox.Destroy
DestroySandbox_returnsErr(p) ==
    /\ pc[p] = "Destroy_sandbox"
    /\ LET cont == stopped(c[p])
       IN  IF c[p].Sandbox # Nil /\ c[p].Sandbox.ID = c[p].ID
           THEN \E ok \in BOOLEAN :
                    /\ sb' = SandboxDestroy(c[p].Sandbox, ok)
                    /\ DestroyReturn(p, IF ok THEN "nil" ELSE "Destroy",
                                     IF ok THEN cont ELSE c[p],
                                     [loc[p] EXCEPT
                                         !.asked = @ \cup {"destroy"}])
           ELSE /\ DestroyReturn(p, "nil", cont, loc[p])
                /\ UNCHANGED sb
    /\ UNCHANGED <<fs, pidfile, created, gone, obs>>

\* c.Sandbox.Destroy() for the init container, then Sandbox = nil and
\* Status = Stopped
DestroySandbox(p) ==
    /\ pc[p] = "Destroy_sandbox"
    /\ LET cont == stopped(c[p])
       IN  IF c[p].Sandbox # Nil /\ c[p].Sandbox.ID = c[p].ID
           THEN /\ \E ok \in BOOLEAN : sb' = SandboxDestroy(c[p].Sandbox, ok)
                /\ DestroyReturn(p, "nil", cont,
                                 [loc[p] EXCEPT !.asked = @ \cup {"destroy"}])
           ELSE /\ DestroyReturn(p, "nil", cont, loc[p])
                /\ UNCHANGED sb
    /\ UNCHANGED <<fs, pidfile, created, gone, obs>>

(***************************************************************************)
(* Container.save                                                          *)
(***************************************************************************)
\* save returns err to Create or Start
SaveReturn(p, err) ==
    IF loc[p].verb = "Start" THEN
        Return(p, err, loc[p])
    ELSE IF err # "nil" THEN
        CallDestroy(p, err, loc[p])
    ELSE IF loc[p].pidFile THEN
        /\ pc' = [pc EXCEPT ![p] = "Create_pidfile"]
        /\ UNCHANGED loc
    ELSE
        Return(p, "nil", loc[p])

\* os.MkdirAll(c.Root, 0711)
saveMkdir(p) ==
    /\ pc[p] = "save_mkdir"
    /\ LET id == DirOf(c[p].Root)
       IN  \/ /\ fs' = [fs EXCEPT ![id].dir = TRUE]
              /\ pc' = [pc EXCEPT ![p] = "save_open"]
              /\ UNCHANGED loc
           \/ /\ SaveReturn(p, "Save")
              /\ UNCHANGED fs
    /\ UNCHANGED <<pidfile, sb, c, created, gone, obs>>

\* ioutil.WriteFile(metaFile, meta, 0640), first half: the file is opened
\* with O_WRONLY|O_CREATE|O_TRUNC
saveOpen(p) ==
    /\ pc[p] = "save_open"
    /\ LET id == DirOf(c[p].Root)
       IN  \/ /\ fs[id].dir
              /\ fs' = [fs EXCEPT ![id].meta = "partial", ![id].rec = NoRec]
              /\ pc' = [pc EXCEPT ![p] = "save_write"]
              /\ UNCHANGED loc
           \/ /\ SaveReturn(p, "Save")
              /\ UNCHANGED fs
    /\ UNCHANGED <<pidfile, sb, c, created, gone, obs>>

\* ioutil.WriteFile, second half: the bytes are written and the file closed
saveWrite(p) ==
    /\ pc[p] = "save_write"
    /\ LET id == DirOf(c[p].Root)
       IN  \/ /\ fs' = IF existsMeta(id)
                       THEN [fs EXCEPT ![id].meta = "full",
                                       ![id].rec = Marshal(c[p])]
                       ELSE fs
              /\ SaveReturn(p, "nil")
           \/ /\ SaveReturn(p, "Save")
              /\ UNCHANGED fs
    /\ UNCHANGED <<pidfile, sb, c, created, gone, obs>>

(***************************************************************************)
(* Create                                                                  *)
(***************************************************************************)
\* validateID, ValidateSpec, exists(containerRoot), c := &Container{...}
Create(p) ==
    /\ pc[p] = "Create"
    /\ LET id == loc[p].id
       IN  IF ~validateID(id) THEN
               /\ Return(p, "InvalidID", loc[p])
               /\ c' = [c EXCEPT ![p] = NoC]
           ELSE IF ~ValidateSpec(loc[p].spec) THEN
               /\ Return(p, "InvalidSpec", loc[p])
               /\ c' = [c EXCEPT ![p] = NoC]
           ELSE IF exists(id) THEN
               /\ Return(p, "AlreadyExists", loc[p])
               /\ c' = [c EXCEPT ![p] = NoC]
           ELSE
               /\ c' = [c EXCEPT ![p] =
                          [present |-> TRUE, ID |-> id, Spec |-> loc[p].spec,
                           BundleDir |-> BundleDir,
                           Root |-> containerRoot(id),
                           ConsoleSocket |-> ConsoleSocket,
                           Status |-> Creating, Sandbox |-> Nil]]
               /\ pc' = [pc EXCEPT ![p] = "Create_sandbox"]
               /\ UNCHANGED loc
    /\ UNCHANGED <<fs, pidfile, sb, created, gone, obs>>

\* sandbox.Create: the handle of the subprocess it launches
SandboxCreate(id) == [ID |-> id, Pid |-> NextPid]

\* s, err := sandbox.Create(...); c.Sandbox = s; c.Status = Created
CreateSandbox(p) ==
    /\ pc[p] = "Create_sandbox"
    /\ LET f == [loc[p] EXCEPT !.asked = @ \cup {"create"}]
       IN  \/ /\ NextPid \in Pids
              /\ sb' = [sb EXCEPT ![NextPid] = "created"]
              /\ c' = [c EXCEPT ![p].Sandbox = SandboxCreate(c[p].ID),
                                ![p].Status = Created]
              /\ pc' = [pc EXCEPT ![p] = "save_mkdir"]
              /\ loc' = [loc EXCEPT ![p] = f]
           \/ /\ CallDestroy(p, "SandboxCreate", f)
              /\ UNCHANGED <<sb, c>>
    /\ UNCHANGED <<fs, pidfile, created, gone, obs>>

\* ioutil.WriteFile(pidFile, strconv.Itoa(c.Pid()), 0644)
CreatePidfile(p) ==
    /\ pc[p] = "Create_pidfile"
    /\ \/ /\ pidfile' = Pid(c[p])
          /\ Return(p, "nil", loc[p])
       \/ /\ pc' = [pc EXCEPT ![p] = "Create_pidfail"]
          /\ loc' = [loc EXCEPT ![p].err = "PidFile"]
          /\ UNCHANGED pidfile
    /\ UNCHANGED <<fs, sb, c, created, gone, obs>>

\* the pid file could not be written: s.Destroy(); return nil, err
CreatePidfail(p) ==
    /\ pc[p] = "Create_pidfail"
    /\ \E ok \in BOOLEAN : sb' = SandboxDestroy(c[p].Sandbox, ok)
    /\ Return(p, loc[p].err, [loc[p] EXCEPT !.asked = @ \cup {"destroy"}])
    /\ c' = [c EXCEPT ![p] = NoC]
    /\ UNCHANGED <<fs, pidfile, created, gone, obs>>

(***************************************************************************)
(* Container.Start                                                         *)
(***************************************************************************)
\* a status check that only rejects Stopped
StartAllowed_notStopped(cont) == cont.Status # Stopped

\* the status Start requires
StartAllowed(cont) == cont.Status = Created

\* if c.Status != Created { return error }
Start(p) ==
    /\ pc[p] = "Start"
    /\ IF ~StartAllowed(c[p])
       THEN Return(p, "BadState", loc[p])
       ELSE /\ pc' = [pc EXCEPT ![p] = "Start_prestart"]
            /\ UNCHANGED loc
    /\ UNCHANGED <<fs, pidfile, sb, c, created, gone, obs>>

\* a prestart failure that returns the error without destroying
StartPrestart_noDestroy(p) ==
    /\ pc[p] = "Start_prestart"
    /\ IF HasHooks(c[p].Spec)
       THEN LET f == [loc[p] EXCEPT !.hooks = @ \cup {"prestart"}]
            IN  \/ /\ pc' = [pc EXCEPT ![p] = "Start_sandbox"]
                   /\ loc' = [loc EXCEPT ![p] = f]
                \/ Return(p, "Prestart", [f EXCEPT !.err = "Prestart"])
       ELSE /\ pc' = [pc EXCEPT ![p] = "Start_sandbox"]
            /\ UNCHANGED loc
    /\ UNCHANGED <<fs, pidfile, sb, c, created, gone, obs>>

\* executeHooks(c.Spec.Hooks.Prestart, c.State())
StartPrestart(p) ==
    /\ pc[p] = "Start_prestart"
    /\ IF HasHooks(c[p].Spec)
       THEN LET f == [loc[p] EXCEPT !.hooks = @ \cup {"prestart"}]
            IN  \/ /\ pc' = [pc EXCEPT ![p] = "Start_sandbox"]
                   /\ loc' = [loc EXCEPT ![p] = f]
                \/ CallDestroy(p, "Prestart", f)
       ELSE /\ pc' = [pc EXCEPT ![p] = "Start_sandbox"]
            /\ UNCHANGED loc
    /\ UNCHANGED <<fs, pidfile, sb, c, created, gone, obs>>

\* c.Sandbox.Start(c.ID, c.Spec, conf): a live sandbox starts the container,
\* or the call fails
StartSandbox(p) ==
    /\ pc[p] = "Start_sandbox"
    /\ LET f == [loc[p] EXCEPT !.asked = @ \cup {"start"}]
       IN  \/ /\ IsRunning(c[p].Sandbox)
              /\ sb' = [sb EXCEPT ![c[p].Sandbox.Pid] = "running"]
              /\ pc' = [pc EXCEPT ![p] = "Start_poststart"]
              /\ loc' = [loc EXCEPT ![p] = f]
           \/ /\ CallDestroy(p, "SandboxStart", f)
              /\ UNCHANGED sb
    /\ UNCHANGED <<fs, pidfile, c, created, gone, obs>>

\* executeHooksBestEffort(c.Spec.Hooks.Poststart, c.State());
\* c.Status = Running; return c.save()
StartPoststart(p) ==
    /\ pc[p] = "Start_poststart"
    /\ IF HasHooks(c[p].Spec)
       THEN \E ran \in {{"poststart"}, {"poststart", "poststart_failed"}} :
                loc' = [loc EXCEPT ![p].hooks = @ \cup ran]
       ELSE UNCHANGED loc
    /\ c' = [c EXCEPT ![p].Status = Running]
    /\ pc' = [pc EXCEPT ![p] = "save_mkdir"]
    /\ UNCHANGED <<fs, pidfile, sb, created, gone, obs>>

(***************************************************************************)
(* Container.Signal                                                        *)
(***************************************************************************)
\* a status check that lets only a Running container be signalled
SignalSkipped_notRunning(cont) == cont.Status # Running

\* if c.Status == Stopped { log.Warningf(...); return nil }
SignalSkipped(cont) == cont.Status = Stopped

\* Sandbox.Signal delivers to a live sandbox, or fails
Signal(p) ==
    /\ pc[p] = "Signal"
    /\ IF SignalSkipped(c[p])
       THEN Return(p, "nil", loc[p])
       ELSE LET f == [loc[p] EXCEPT !.asked = @ \cup {"signal"}]
            IN  \/ IsRunning(c[p].Sandbox) /\ Return(p, "nil", f)
                \/ Return(p, "Signal", f)
    /\ UNCHANGED <<fs, pidfile, sb, c, created, gone, obs>>

(***************************************************************************)
(* Container.Wait                                                          *)
(***************************************************************************)
\* return c.Sandbox.Wait(c.ID): a live sandbox returns the wait status of
\* the init process, or the call fails; no sandbox answers a call made
\* through a nil reference
Wait(p) ==
    /\ pc[p] = "Wait"
    /\ LET f == [loc[p] EXCEPT !.asked = @ \cup {"wait"}]
       IN  \/ IsRunning(c[p].Sandbox) /\ Return(p, "nil", f)
           \/ Return(p, "Wait", f)
    /\ UNCHANGED <<fs, pidfile, sb, c, created, gone, obs>>

(***************************************************************************)
(* Environment.                                                            *)
(***************************************************************************)
\* a sandbox subprocess exits or is killed from outside
SandboxExit ==
    \E n \in Pids :
        /\ sb[n] \in {"created", "running"}
        /\ sb' = [sb EXCEPT ![n] = "dead"]
        /\ UNCHANGED <<fs, pidfile, c, pc, loc, created, gone, obs>>

\* the process executing a verb dies: frame and Container value are lost
Crash(p) ==
    /\ pc[p] \notin {"idle", "return"}
    /\ pc' = [pc EXCEPT ![p] = "idle"]
    /\ loc' = [loc EXCEPT ![p] = [NoFrame EXCEPT !.result = "crashed"]]
    /\ c' = [c EXCEPT ![p] = NoC]
    /\ created' = 0
    /\ gone' = 0
    /\ UNCHANGED <<fs, pidfile, sb, obs>>

Next ==
    \/ \E p \in Callers : Invoke(p)
    \/ \E p \in Callers : Exit(p)
    \/ \E p \in Callers : Load(p)
    \/ \E p \in Callers : Create(p)
    \/ \E p \in Callers : CreateSandbox(p)
    \/ \E p \in Callers : CreatePidfile(p)
    \/ \E p \in Callers : CreatePidfail(p)
    \/ \E p \in Callers : saveMkdir(p)
    \/ \E p \in Callers : saveOpen(p)
    \/ \E p \in Callers : saveWrite(p)
    \/ \E p \in Callers : Start(p)
    \/ \E p \in Callers : StartPrestart(p)
    \/ \E p \in Callers : StartSandbox(p)
    \/ \E p \in Callers : StartPoststart(p)
    \/ \E p \in Callers : Destroy(p)
    \/ \E p \in Callers : DestroyRm1(p)
    \/ \E p \in Callers : DestroyHooks(p)
    \/ \E p \in Callers : DestroyRm2(p)
    \/ \E p \in Callers : DestroySandbox(p)
    \/ \E p \in Callers : Signal(p)
    \/ \E p \in Callers : Wait(p)
    \/ \E p \in Callers : Crash(p)
    \/ SandboxExit

Spec == Init /\ [][Next]_vars

(***************************************************************************)
(* The host that executes the run command: Run is the only entry point,    *)
(* and it goes through the steps of Create, Start and Wait.                *)
(***************************************************************************)
NextRun ==
    \/ \E p \in Callers : InvokeRun(p)
    \/ \E p \in Callers : Run(p)
    \/ \E p \in Callers : Exit(p)
    \/ \E p \in Callers : Create(p)
    \/ \E p \in Callers : CreateSandbox(p)
    \/ \E p \in Callers : CreatePidfile(p)
    \/ \E p \in Callers : CreatePidfail(p)
    \/ \E p \in Callers : saveMkdir(p)
    \/ \E p \in Callers : saveOpen(p)
    \/ \E p \in Callers : saveWrite(p)
    \/ \E p \in Callers : Start(p)
    \/ \E p \in Callers : StartPrestart(p)
    \/ \E p \in Callers : StartSandbox(p)
    \/ \E p \in Callers : StartPoststart(p)
    \/ \E p \in Callers : Destroy(p)
    \/ \E p \in Callers : DestroyRm1(p)
    \/ \E p \in Callers : DestroyHooks(p)
    \/ \E p \in Callers : DestroyRm2(p)
    \/ \E p \in Callers : DestroySandbox(p)
    \/ \E p \in Callers : Wait(p)
    \/ \E p \in Callers : Crash(p)
    \/ SandboxExit

SpecRun == Init /\ [][NextRun]_vars

(***************************************************************************)
(* The argument checks of Create and Load, and what Load makes of the      *)
(* record it finds: the id is any string of IdInputs, and the root         *)
(* directory holds no container or a container "a" whose meta.json is any  *)
(* record.                                                                 *)
(***************************************************************************)
\* the records meta.json of container "a" may hold
StoredRecs ==
    {[ID |-> <<"a">>, Spec |-> "plain", BundleDir |-> BundleDir,
      Root |-> containerRoot(<<"a">>), Status |-> st, Sandbox |-> s] :
        st \in {Creating, Created, Running, Stopped},
        s \in {Nil, [ID |-> <<"a">>, Pid |-> 1]}}

InitInput ==
    /\ \E d \in {NoDir} \cup {[dir |-> TRUE, meta |-> "full", rec |-> r] :
                                r \in StoredRecs} :
           fs = [id \in Ids |-> IF id = <<"a">> THEN d ELSE NoDir]
    /\ pidfile = 0
    /\ \E st \in {"created", "running", "dead"} :
           sb = [n \in Pids |-> IF n = 1 THEN st ELSE "unused"]
    /\ c = [p \in Procs |-> NoC]
    /\ pc = [p \in Procs |-> "idle"]
    /\ loc = [p \in Procs |-> NoFrame]
    /\ created = 0
    /\ gone = 0
    /\ obs = [n \in Pids |-> "none"]

\* a caller invokes Create or Load with any id
InvokeInput(p) ==
    \/ \E id \in IdInputs, spec \in Specs :
           Enter(p, "Create", id, spec, FALSE)
    \/ \E id \in IdInputs : Enter(p, "Load", id, "plain", FALSE)

NextInput ==
    \/ \E p \in Callers : InvokeInput(p)
    \/ \E p \in Callers : Create(p)
    \/ \E p \in Callers : Load(p)
    \/ \E p \in Callers : Exit(p)

SpecInput == InitInput /\ [][NextInput]_vars

(***************************************************************************)
(* Concurrent delete commands: container "a" exists, Created or Running,   *)
(* its sandbox alive; every process loads it and destroys it once.         *)
(***************************************************************************)
InitRace ==
    /\ \E st \in {Created, Running}, spec \in {"plain", "hooks"} :
           /\ fs = [id \in Ids |->
                       IF id = <<"a">>
                       THEN [dir |-> TRUE, meta |-> "full",
                             rec |-> [ID |-> id, Spec |-> spec,
                                      BundleDir |-> BundleDir,
                                      Root |-> containerRoot(id),
                                      Status |-> st,
                                      Sandbox |-> [ID |-> id, Pid |-> 1]]]
                       ELSE NoDir]
           /\ sb = [n \in Pids |->
                       IF n = 1
                       THEN IF st = Created THEN "created" ELSE "running"
                       ELSE "unused"]
    /\ pidfile = 0
    /\ c = [p \in Procs |-> NoC]
    /\ pc = [p \in Procs |-> "idle"]
    /\ loc = [p \in Procs |-> NoFrame]
    /\ created = 0
    /\ gone = 0
    /\ obs = [n \in Pids |-> "none"]

\* a delete command loads the container, then destroys what it loaded
InvokeRace(p) ==
    \/ ~c[p].present /\ Enter(p, "Load", <<"a">>, "plain", FALSE)
    \/ c[p].present /\ Enter(p, "Destroy", c[p].ID, c[p].Spec, FALSE)

\* Load has returned to the command
ExitLoad(p) == loc[p].verb = "Load" /\ Exit(p)

NextRace ==
    \/ \E p \in Procs : InvokeRace(p)
    \/ \E p \in Procs : Load(p)
    \/ \E p \in Procs : ExitLoad(p)
    \/ \E p \in Procs : Destroy(p)
    \/ \E p \in Procs : DestroyRm1(p)
    \/ \E p \in Procs : DestroyHooks(p)
    \/ \E p \in Procs : DestroyRm2(p)
    \/ \E p \in Procs : DestroySandbox(p)
    \/ \E p \in Procs : Crash(p)
    \/ SandboxExit

SpecRace == InitRace /\ [][NextRace]_vars

(***************************************************************************)
(* Properties.                                                             *)
(***************************************************************************)
\* the verb v of caller p has returned
Done(p, v) == pc[p] = "return" /\ loc[p].verb = v
\* ... with a nil error
Ok(p, v) == Done(p, v) /\ loc[p].result = "nil"

Alive(n) == sb[n] \in {"created", "running"}

StatusRank(s) ==
    CASE s = "none" -> 0
      [] s = Created -> 1
      [] s = Running -> 2
      [] s = Stopped -> 3
      [] OTHER -> -1

Agree(status, sandbox) ==
    /\ status \in {Created, Running} => sandbox # Nil
    /\ status = Stopped => sandbox = Nil

\* C2: the Container a successful Create or Load returns, and the Container
\* after a successful Start or Destroy, has a sandbox when its status is
\* Created or Running and none when it is Stopped; so has every record in a
\* meta.json.
C2_StatusSandboxAgree ==
    /\ \A p \in Procs :
           (\E v \in {"Create", "Load", "Start", "Destroy"} : Ok(p, v))
               => Agree(c[p].Status, c[p].Sandbox)
    /\ \A id \in Ids :
           fs[id].meta = "full" => Agree(fs[id].rec.Status, fs[id].rec.Sandbox)

\* Destroy has succeeded on a container that was Running
C2_Witness ==
    \E p \in Procs :
        /\ Ok(p, "Destroy")
        /\ c[p].Status = Stopped
        /\ c[p].Sandbox = Nil
        /\ "destroy" \in loc[p].asked

\* C3: Load of an id right after a successful Create of it, the sandbox
\* being alive, succeeds and returns the id, spec, bundleDir and root Create
\* set, with status Created.
C3_CreateThenLoad ==
    \A p \in Procs :
        (/\ Done(p, "Load")
         /\ loc[p].made.present
         /\ Alive(loc[p].made.Sandbox.Pid))
        => /\ loc[p].result = "nil"
           /\ c[p].ID = loc[p].made.ID
           /\ c[p].ID = loc[p].id
           /\ c[p].Spec = loc[p].made.Spec
           /\ c[p].BundleDir = loc[p].made.BundleDir
           /\ c[p].Root = loc[p].made.Root
           /\ c[p].Status = loc[p].made.Status
           /\ c[p].Status = Created

\* Load has returned the container a Create with hooks has just made
C3_Witness ==
    \E p \in Procs :
        /\ Ok(p, "Load")
        /\ loc[p].made.present
        /\ Alive(loc[p].made.Sandbox.Pid)
        /\ c[p].Spec = "hooks"
        /\ c[p].BundleDir = BundleDir

C5_LoadReconciles ==
    [][\A p \in Procs :
        (pc[p] = "Load" /\ pc'[p] = "return" /\ loc'[p].result = "nil")
        => LET rec == fs[loc[p].id].rec
           IN  rec.Status \in {Created, Running}
               => IF rec.Sandbox # Nil /\ Alive(rec.Sandbox.Pid)
                  THEN /\ c'[p].Status = rec.Status
                       /\ c'[p].Sandbox = rec.Sandbox
                  ELSE /\ c'[p].Status = Stopped
                       /\ c'[p].Sandbox = Nil]_vars

\* Load has returned Stopped for a record stored as Created whose sandbox
\* is dead
C5_Witness ==
    \E p \in Procs :
        /\ Ok(p, "Load")
        /\ c[p].Status = Stopped
        /\ c[p].Sandbox = Nil
        /\ fs[loc[p].id].rec.Status = Created
        /\ sb[fs[loc[p].id].rec.Sandbox.Pid] = "dead"

\* C6 as stated: when Create or Start returns the error of a failure that
\* came after the sandbox was created, Container.Destroy has been called.
C6_DestroyOnLateFailure ==
    \A p \in Procs :
        (/\ Done(p, "Create") \/ Done(p, "Start")
         /\ loc[p].result \in {"Save", "PidFile", "Prestart", "SandboxStart"})
        => loc[p].destroyed

\* C7 as stated: after an invocation has crashed, no meta.json is truncated
\* or partly written.
C7_NoPartialRecord ==
    \A p \in Procs :
        loc[p].result = "crashed" => \A id \in Ids : fs[id].meta # "partial"

C9_StartBadState ==
    [][\A p \in Procs :
        (/\ pc[p] = "Start"
         /\ c[p].Status # Created
         /\ pc'[p] # "Start"
         /\ loc'[p].result # "crashed")
        => /\ pc'[p] = "return"
           /\ loc'[p].result = "BadState"
           /\ loc'[p].hooks = {}
           /\ loc'[p].asked = {}
           /\ c' = c
           /\ fs' = fs
           /\ sb' = sb
           /\ pidfile' = pidfile]_vars

\* Start has been refused on a Running container
C9_Witness ==
    \E p \in Procs :
        /\ Done(p, "Start")
        /\ loc[p].result = "BadState"
        /\ c[p].Status = Running
        /\ c[p].Sandbox # Nil

StatedClass(ch) == IsWord(ch) \/ ch \in {"+", "-", "."}

\* the id matches ^[\w+\-.]+$
StatedPattern(id) == Len(id) >= 1 /\ \A i \in 1..Len(id) : StatedClass(id[i])

\* C11 as stated: once Create or Load has checked its id, an id that does
\* not match ^[\w+\-.]+$ has been rejected with InvalidID, with no sandbox
\* asked for and the filesystem untouched, and an id that matches has not
\* been rejected with InvalidID.
C11_IdCheck ==
    \A p \in Procs :
        (loc[p].verb \in {"Create", "Load"} /\ pc[p] # loc[p].verb) =>
            IF StatedPattern(loc[p].id)
            THEN loc[p].result # "InvalidID"
            ELSE /\ pc[p] = "return"
                 /\ loc[p].result = "InvalidID"
                 /\ loc[p].asked = {}

C13_Signal ==
    [][\A p \in Procs :
        (pc[p] = "Signal" /\ pc'[p] = "return") =>
            /\ c' = c /\ fs' = fs /\ sb' = sb /\ pidfile' = pidfile
            /\ IF c[p].Status = Stopped
               THEN /\ loc'[p].result = "nil"
                    /\ loc'[p].asked = {}
                    /\ loc'[p].hooks = {}
               ELSE "signal" \in loc'[p].asked]_vars

\* Signal has returned on a Stopped container
C13_Witness ==
    \E p \in Procs :
        /\ Ok(p, "Signal")
        /\ loc[p].st0 = Stopped
        /\ "signal" \notin loc[p].asked

C16_OnlyStopFails ==
    \A p \in Procs :
        Done(p, "Destroy") =>
            \/ /\ loc[p].result = "Stop"
               /\ loc[p].rm = {}
               /\ loc[p].hooks = {}
               /\ "destroy" \notin loc[p].asked
               /\ c[p].Status = loc[p].st0
            \/ /\ loc[p].result = "nil"
               /\ loc[p].rm # {}
               /\ c[p].Status = Stopped
               /\ c[p].Sandbox = Nil

\* Destroy has returned success although both removals failed, a poststop
\* hook failed and the sandbox, asked to destroy itself, is still alive
C16_Witness ==
    \E p \in Procs :
        /\ Ok(p, "Destroy")
        /\ loc[p].rm = {"kept"}
        /\ "poststop_failed" \in loc[p].hooks
        /\ "destroy" \in loc[p].asked
        /\ fs[loc[p].id].meta = "full"
        /\ Alive(fs[loc[p].id].rec.Sandbox.Pid)

\* p has destroyed a container it had loaded while the sandbox was alive
Raced(p) == Done(p, "Destroy") /\ loc[p].st0 \in {Created, Running}

C18_WaitAnyStatus ==
    [][\A p \in Procs :
        (pc[p] = "Wait" /\ pc'[p] = "return") =>
            /\ loc'[p].result # "BadState"
            /\ c[p].Sandbox # Nil
            /\ "wait" \in loc'[p].asked
            /\ c' = c /\ fs' = fs]_vars

\* C19: when Run has returned it has called Create, then Start if Create
\* succeeded, then Wait if Start succeeded, all on the container of its id;
\* it returns the error of Create or of Start without having waited, and
\* otherwise what Wait returned; a poststart hook that failed in a Start
\* that succeeded has not kept Run from waiting.
C19_RunSequence ==
    \A p \in Procs :
        Done(p, "Run") =>
            LET tr == loc[p].trail
                n == Len(tr)
            IN  /\ n \in 1..3
                /\ tr[1][1] = "Create"
                /\ n >= 2 => tr[2][1] = "Start" /\ c[p].ID = loc[p].id
                /\ n = 3 => tr[3][1] = "Wait"
                /\ \A i \in 1..(n - 1) : tr[i][2] = "nil"
                /\ loc[p].result = tr[n][2]
                /\ n < 3 => tr[n][2] # "nil" /\ "wait" \notin loc[p].asked
                /\ n = 3 => "wait" \in loc[p].asked
                /\ ("poststart_failed" \in loc[p].hooks /\ tr[2][2] = "nil")
                       => "wait" \in loc[p].asked

\* Run has returned what Wait returned although a poststart hook failed
C19_Witness ==
    \E p \in Procs :
        /\ Ok(p, "Run")
        /\ Len(loc[p].trail) = 3
        /\ "poststart_failed" \in loc[p].hooks
        /\ "wait" \in loc[p].asked

\* C20, first part: no meta.json written by a verb holds status Creating.
C20_NeverStored ==
    \A id \in DOMAIN fs : fs[id].meta = "full" => fs[id].rec.Status # Creating

\* C20 as stated, second part: Load of a record whose stored status is
\* Creating fails as corrupt, it returns no Container in status Creating.
C20_LoadCreating ==
    \A p \in Procs :
        (Done(p, "Load") /\ exists(loc[p].id)
            /\ fs[loc[p].id].meta = "full"
            /\ fs[loc[p].id].rec.Status = Creating) =>
                /\ loc[p].result = "Corrupt"
                /\ ~c[p].present

\* C21 as stated: whenever a verb calls an operation on the sandbox of its
\* container (Stop, Destroy, Start, Signal, Wait; sandbox.Create is a
\* function of the package and needs no reference), the sandbox reference
\* of the container is present.
C21_SandboxPresent ==
    [][\A p \in Procs :
        (loc'[p].asked \ loc[p].asked) \ {"create"} # {} =>
            c[p].Sandbox # Nil]_vars
====
